---- MODULE Spec2Model ----
(***************************************************************************)
(* Verification model of lazydancer/haul (backend/src): the arbitrage      *)
(* matcher (arbitrage.py) and the route optimizer (route.py).              *)
(*                                                                         *)
(* Python floats are modelled by exact rationals [n, d] (d > 0, lowest     *)
(* terms); prices, volumes and quantities of the modelled inputs are whole *)
(* numbers.  route.py is modelled against the types it declares (Graph,    *)
(* Ship, Trade, RouteStep).                                                *)
(***************************************************************************)
EXTENDS Integers, Sequences, FiniteSets, TLC

----------------------------------------------------------------------------
(* Exact rational arithmetic standing in for float arithmetic.             *)

Abs(x) == IF x < 0 THEN -x ELSE x

Min(a, b) == IF a <= b THEN a ELSE b

RECURSIVE Gcd(_, _)
Gcd(a, b) == IF b = 0 THEN a ELSE Gcd(b, a % b)

Rat(n, d) ==
    LET g == Gcd(Abs(n), d) IN
    IF n = 0 THEN [n |-> 0, d |-> 1] ELSE [n |-> n \div g, d |-> d \div g]

RatInt(i) == [n |-> i, d |-> 1]

Lcm(a, b) == (a \div Gcd(a, b)) * b

RatAdd(a, b) ==
    LET l == Lcm(a.d, b.d) IN Rat(a.n * (l \div a.d) + b.n * (l \div b.d), l)

RatNeg(a) == [n |-> -a.n, d |-> a.d]

RatSub(a, b) == RatAdd(a, RatNeg(b))

RatMul(a, b) ==
    LET g1 == Gcd(Abs(a.n), b.d)
        g2 == Gcd(Abs(b.n), a.d)
    IN  IF a.n = 0 \/ b.n = 0 THEN RatInt(0)
        ELSE Rat((a.n \div g1) * (b.n \div g2), (a.d \div g2) * (b.d \div g1))

\* a / b for b > 0
RatDiv(a, b) == RatMul(a, [n |-> b.d, d |-> b.n])

RatLess(a, b) ==
    LET l == Lcm(a.d, b.d) IN a.n * (l \div a.d) < b.n * (l \div b.d)

RatLeq(a, b) == ~RatLess(b, a)

RECURSIVE RatSum(_)
RatSum(s) == IF s = <<>> THEN RatInt(0) ELSE RatAdd(Head(s), RatSum(Tail(s)))

RECURSIVE IntSum(_)
IntSum(s) == IF s = <<>> THEN 0 ELSE Head(s) + IntSum(Tail(s))

----------------------------------------------------------------------------
(* arbitrage.py: constants                                                 *)

TAX_RATE == [n |-> 2, d |-> 25]

PROFIT_THRESHOLD == 100000

MAX_CAPITAL == 100000000

\* Optional values: None, or Some(x)
None == [is_none |-> TRUE]

Some(x) == [is_none |-> FALSE, val |-> x]

\* an exception leaving a call
Raised == [raised |-> TRUE]

----------------------------------------------------------------------------
(* Bounds and the inputs of the model                                      *)

MaxOrders == 4

\* item catalogue: type_id -> volume (loader.load_items); type 3 has volume 0
ItemVolume == <<1, 3, 0>>

MkOrder(id, loc, ty, buy, price, vol) ==
    [order_id |-> id, region_id |-> 1, location_id |-> loc, type_id |-> ty,
     is_buy_order |-> buy, price |-> price, volume_remain |-> vol,
     item_name |-> ty, item_cargo_volume |-> ItemVolume[ty]]

\* the order book the snapshots are drawn from
OrderPool ==
    << MkOrder(1, 1, 1, FALSE,  1000000, 3),
       MkOrder(2, 2, 1, TRUE,   2000000, 5),
       MkOrder(3, 2, 1, TRUE,   1500000, 3),
       MkOrder(4, 1, 1, FALSE,  1200000, 4),
       MkOrder(5, 3, 1, TRUE,   2000000, 3),
       MkOrder(6, 1, 2, FALSE, 60000000, 2),
       MkOrder(7, 2, 2, TRUE,  70000000, 2),
       MkOrder(8, 1, 2, FALSE, 50000000, 2),
       MkOrder(9, 2, 2, TRUE,  66000000, 3),
       MkOrder(10, 2, 1, FALSE,       0, 4),
       MkOrder(11, 1, 3, FALSE, 1000000, 2),
       MkOrder(12, 3, 1, FALSE, 1820000, 9),
       MkOrder(13, 3, 1, FALSE, 1500000, 2),
       MkOrder(14, 1, 1, TRUE,  2200000, 5),
       MkOrder(15, 1, 1, TRUE,  2100000, 4) >>

\* the sub-sequence of s at the positions in idx, in the order of s
RECURSIVE Pick(_, _, _)
Pick(s, idx, k) ==
    IF k > Len(s) THEN <<>>
    ELSE (IF k \in idx THEN <<s[k]>> ELSE <<>>) \o Pick(s, idx, k + 1)

Snapshots ==
    { Pick(OrderPool, idx, 1) :
        idx \in { x \in SUBSET (1..Len(OrderPool)) : Cardinality(x) <= MaxOrders } }

----------------------------------------------------------------------------
(* arbitrage.py: the matcher                                               *)

\* sorted(..., key=price): stable insertion, ascending
RECURSIVE SortByPriceAsc(_)
SortByPriceAsc(s) ==
    IF s = <<>> THEN <<>>
    ELSE LET x    == s[Len(s)]
             rest == SortByPriceAsc(SubSeq(s, 1, Len(s) - 1))
             le   == SelectSeq(rest, LAMBDA o : o.price <= x.price)
             gt   == SelectSeq(rest, LAMBDA o : o.price > x.price)
         IN  le \o <<x>> \o gt

\* sorted(..., key=price, reverse=True): stable, descending
RECURSIVE SortByPriceDesc(_)
SortByPriceDesc(s) ==
    IF s = <<>> THEN <<>>
    ELSE LET x    == s[Len(s)]
             rest == SortByPriceDesc(SubSeq(s, 1, Len(s) - 1))
             ge   == SelectSeq(rest, LAMBDA o : o.price >= x.price)
             lt   == SelectSeq(rest, LAMBDA o : o.price < x.price)
         IN  ge \o <<x>> \o lt

\* The list element a filtering pass leaves behind: the pass rebinds
\* `order` to a copy before it assigns volume_remain.
FilterSourceAfter_NoCopy(order, volume_remain) ==
    [order EXCEPT !.volume_remain = volume_remain]

FilterSourceAfter(order, volume_remain) == order

\* volume_remain = min(order.volume_remain, max_quantity)
CappedVolume_NoCap(volume_remain, max_quantity) == volume_remain

CappedVolume(volume_remain, max_quantity) == Min(volume_remain, max_quantity)

\* One iteration of filter_orders_for_cargo
CargoPass(order, cargo_space) ==
    LET item_volume == order.item_cargo_volume IN
    IF item_volume = 0
    THEN [keep |-> FALSE, derived |-> order, source |-> order]
    ELSE LET max_quantity  == cargo_space \div item_volume
             volume_remain == CappedVolume(order.volume_remain, max_quantity)
         IN  IF volume_remain > 0
             THEN [keep    |-> TRUE,
                   derived |-> [order EXCEPT !.volume_remain = volume_remain],
                   source  |-> FilterSourceAfter(order, volume_remain)]
             ELSE [keep |-> FALSE, derived |-> order, source |-> order]

\* One iteration of filter_orders_for_capital_risk
CapitalPass(order, max_amount) ==
    LET price == order.price IN
    IF price = 0
    THEN [keep |-> FALSE, derived |-> order, source |-> order]
    ELSE LET max_quantity  == max_amount \div price
             volume_remain == CappedVolume(order.volume_remain, max_quantity)
         IN  IF volume_remain > 0
             THEN [keep    |-> TRUE,
                   derived |-> [order EXCEPT !.volume_remain = volume_remain],
                   source  |-> FilterSourceAfter(order, volume_remain)]
             ELSE [keep |-> FALSE, derived |-> order, source |-> order]

RECURSIVE KeptOf(_)
KeptOf(passes) ==
    IF passes = <<>> THEN <<>>
    ELSE (IF Head(passes).keep THEN <<Head(passes).derived>> ELSE <<>>)
         \o KeptOf(Tail(passes))

\* filtered: the returned list; source: the objects of the input list after
\* the call
filter_orders_for_cargo(orders, cargo_space) ==
    LET passes == [i \in 1..Len(orders) |-> CargoPass(orders[i], cargo_space)]
    IN  [filtered |-> KeptOf(passes),
         source   |-> [i \in 1..Len(orders) |-> passes[i].source]]

filter_orders_for_capital_risk(orders, max_amount) ==
    LET passes == [i \in 1..Len(orders) |-> CapitalPass(orders[i], max_amount)]
    IN  [filtered |-> KeptOf(passes),
         source   |-> [i \in 1..Len(orders) |-> passes[i].source]]

\* effective_buy_price = buy_order.price * (1 - TAX_RATE)
EffectiveBuyPrice(price) == RatMul(RatInt(price), RatSub(RatInt(1), TAX_RATE))

\* if effective_buy_price < sell_order.price: continue
SkipUnprofitable(effective_buy_price, sell_price) ==
    RatLess(effective_buy_price, RatInt(sell_price))

\* if gross_profit < PROFIT_THRESHOLD: continue
SkipLowProfit_Never(gross_profit) == FALSE

SkipLowProfit(gross_profit) == RatLess(gross_profit, RatInt(PROFIT_THRESHOLD))

\* The Trade create_trades builds for one (sell, buy) pair, or <<>>
PairTrade(sell_order, buy_order) ==
    LET effective_buy_price == EffectiveBuyPrice(buy_order.price)
        quantity     == Min(sell_order.volume_remain, buy_order.volume_remain)
        gross_profit == RatMul(RatInt(quantity),
                               RatSub(effective_buy_price, RatInt(sell_order.price)))
    IN  IF SkipUnprofitable(effective_buy_price, sell_order.price) THEN <<>>
        ELSE IF SkipLowProfit(gross_profit) THEN <<>>
        ELSE << [from_station      |-> sell_order.location_id,
                 to_station        |-> buy_order.location_id,
                 from_order_id     |-> sell_order.order_id,
                 to_order_id       |-> buy_order.order_id,
                 item_name         |-> sell_order.item_name,
                 type_id           |-> sell_order.type_id,
                 item_cargo_volume |-> sell_order.item_cargo_volume,
                 from_price        |-> sell_order.price,
                 to_price          |-> buy_order.price,
                 quantity          |-> quantity,
                 cargo             |-> quantity * sell_order.item_cargo_volume,
                 gross_profit      |-> gross_profit,
                 net_profit        |-> None] >>

RECURSIVE TradesOfSell(_, _)
TradesOfSell(sell_order, buys) ==
    IF buys = <<>> THEN <<>>
    ELSE PairTrade(sell_order, Head(buys)) \o TradesOfSell(sell_order, Tail(buys))

RECURSIVE TradesOfType(_, _)
TradesOfType(sells, buys) ==
    IF sells = <<>> THEN <<>>
    ELSE TradesOfSell(Head(sells), buys) \o TradesOfType(Tail(sells), buys)

\* the loop over the common type ids (a set of small ints iterates ascending)
RECURSIVE TradesFromType(_, _, _)
TradesFromType(ty, sell_orders, buy_orders) ==
    IF ty > Len(ItemVolume) THEN <<>>
    ELSE TradesOfType(SelectSeq(sell_orders, LAMBDA o : o.type_id = ty),
                      SelectSeq(buy_orders,  LAMBDA o : o.type_id = ty))
         \o TradesFromType(ty + 1, sell_orders, buy_orders)

create_trades(sell_orders, buy_orders) == TradesFromType(1, sell_orders, buy_orders)

\* trades: the returned list; snapshot: the caller's `orders` list after the
\* call (its objects are the ones the cargo filter iterates over)
arbitrage(orders, cargo_space) ==
    LET sell_orders == SortByPriceAsc(SelectSeq(orders, LAMBDA o : ~o.is_buy_order))
        buy_orders  == SortByPriceDesc(SelectSeq(orders, LAMBDA o : o.is_buy_order))
        sellC == filter_orders_for_cargo(sell_orders, cargo_space)
        buyC  == filter_orders_for_cargo(buy_orders, cargo_space)
        sellK == filter_orders_for_capital_risk(sellC.filtered, MAX_CAPITAL)
        buyK  == filter_orders_for_capital_risk(buyC.filtered, MAX_CAPITAL)
        after == sellC.source \o buyC.source
        ObjAfter(o) == LET k == CHOOSE k \in 1..Len(after) :
                                    after[k].order_id = o.order_id
                       IN  after[k]
    IN  [trades   |-> create_trades(sellK.filtered, buyK.filtered),
         snapshot |-> [i \in 1..Len(orders) |-> ObjAfter(orders[i])]]

----------------------------------------------------------------------------
(* The navigation graph route() consults (Graph: nodes, per-edge time,     *)
(* risk and weight, the stations table)                                    *)

\* manager.py ship profile: player_cost = 15_000_000 / 3600, risk_cost
PLAYER_COST == [n |-> 12500, d |-> 3]

RISK_COST == 60000000

\* graph.py _add_time_and_risk: weight = time * player_cost + risk_cost * risk
EdgeWeight(time, risk) ==
    RatAdd(RatMul(time, PLAYER_COST), RatMul(RatInt(RISK_COST), risk))

MkEdge(u, v, time, risk) ==
    [u |-> u, v |-> v, time |-> time, risk |-> risk, weight |-> EdgeWeight(time, risk)]

\* stations table (loader.process_row): stations 1..3, stargates 4 and 5
Stations ==
    [x \in 1..5 |->
        [is_station      |-> x <= 3,
         solar_system_id |-> IF x \in {1, 3, 4} THEN 101 ELSE 102]]

\* solar_systems table: the systems, and the region of each in the two maps
SolarSystems == {101, 102}

OneRegion == [s \in SolarSystems |-> 10]

TwoRegions == [s \in SolarSystems |-> IF s = 101 THEN 10 ELSE 20]

HighSec == Rat(4, 100000)

MidSec == Rat(12, 100000)

NullSec == Rat(50544, 100000)

\* security 1.0 in a system listed in gankers_areas with factor 0.45
GankSec == Rat(45004, 100000)

\* the graphs the runs are drawn from: a calm one in which the legs 1->2 and
\* 1->3 cost the same, a dangerous one with a zero-time edge, one whose gate
\* connection is missing, the calm one with its systems in two regions, and
\* one whose gate leads through a gankers area, weighted for a cheaper hull
\* (risk_cost 30,000,000), and a calm one in which station 1 lies on the
\* lightest path between station 3 and the gate
GraphPool ==
    << [edges |-> { MkEdge(1, 3, RatInt(30), MidSec), MkEdge(1, 4, RatInt(10), HighSec),
                    MkEdge(3, 4, RatInt(25), HighSec), MkEdge(4, 5, RatInt(9), HighSec),
                    MkEdge(2, 5, RatInt(11), HighSec) },
        nodes |-> 1..5, regions |-> OneRegion],
       [edges |-> { MkEdge(1, 3, RatInt(0), HighSec), MkEdge(1, 4, RatInt(10), HighSec),
                    MkEdge(3, 4, RatInt(25), HighSec), MkEdge(4, 5, RatInt(9), NullSec),
                    MkEdge(2, 5, RatInt(11), HighSec) },
        nodes |-> 1..5, regions |-> OneRegion],
       [edges |-> { MkEdge(1, 3, RatInt(30), MidSec), MkEdge(1, 4, RatInt(10), HighSec),
                    MkEdge(3, 4, RatInt(25), HighSec), MkEdge(2, 5, RatInt(11), HighSec) },
        nodes |-> 1..5, regions |-> OneRegion],
       [edges |-> { MkEdge(1, 3, RatInt(30), MidSec), MkEdge(1, 4, RatInt(10), HighSec),
                    MkEdge(3, 4, RatInt(25), HighSec), MkEdge(4, 5, RatInt(9), HighSec),
                    MkEdge(2, 5, RatInt(11), HighSec) },
        nodes |-> 1..5, regions |-> TwoRegions],
       [edges |-> { [e EXCEPT !.weight = RatAdd(RatMul(e.time, PLAYER_COST),
                                                RatMul(RatInt(RISK_COST \div 2), e.risk))] :
                    e \in { MkEdge(1, 3, RatInt(30), MidSec), MkEdge(1, 4, RatInt(10), HighSec),
                            MkEdge(3, 4, RatInt(25), HighSec), MkEdge(4, 5, RatInt(9), GankSec),
                            MkEdge(2, 5, RatInt(11), HighSec) } },
        nodes |-> 1..5, regions |-> OneRegion],
       [edges |-> { MkEdge(1, 3, RatInt(3), HighSec), MkEdge(1, 4, RatInt(10), HighSec),
                    MkEdge(3, 4, RatInt(25), HighSec), MkEdge(4, 5, RatInt(9), HighSec),
                    MkEdge(2, 5, RatInt(11), HighSec) },
        nodes |-> 1..5, regions |-> OneRegion] >>

HasEdge(g, a, b) == \E e \in g.edges : {e.u, e.v} = {a, b}

\* graph.graph[u][v]
EdgeOf(g, a, b) == CHOOSE e \in g.edges : {e.u, e.v} = {a, b}

\* the simple paths that extend p to target
RECURSIVE SimplePaths(_, _, _)
SimplePaths(g, p, target) ==
    IF p[Len(p)] = target THEN {p}
    ELSE UNION { SimplePaths(g, Append(p, n), target) :
                    n \in { m \in g.nodes : /\ HasEdge(g, p[Len(p)], m)
                                            /\ \A i \in 1..Len(p) : p[i] # m } }

PathsBetween(g, source, target) == SimplePaths(g, <<source>>, target)

PathWeight(g, p) ==
    RatSum([i \in 1..(Len(p) - 1) |-> EdgeOf(g, p[i], p[i + 1]).weight])

\* graph.shortest_path: Dijkstra over `weight`; None when there is no path,
\* Raised (networkx NodeNotFound) when an endpoint is not a node
shortest_path(g, source, target) ==
    IF source \notin g.nodes \/ target \notin g.nodes THEN Raised
    ELSE LET ps == PathsBetween(g, source, target) IN
         IF ps = {} THEN None
         ELSE Some(CHOOSE p \in ps :
                \A q \in ps : RatLeq(PathWeight(g, p), PathWeight(g, q)))

\* graph._combine_warp_gates
RECURSIVE CombineFrom(_, _)
CombineFrom(path, i) ==
    IF i >= Len(path) THEN <<>>
    ELSE LET current_id == path[i]
             next_id    == path[i + 1]
             known(x)   == x \in DOMAIN Stations
         IN  (IF known(current_id) /\ Stations[current_id].is_station
              THEN <<current_id>>
              ELSE IF /\ known(current_id) /\ known(next_id)
                      /\ ~Stations[current_id].is_station
                      /\ ~Stations[next_id].is_station
                      /\ Stations[current_id].solar_system_id
                            = Stations[next_id].solar_system_id
              THEN <<Stations[current_id].solar_system_id>>
              ELSE <<>>)
             \o CombineFrom(path, i + 1)

combine_warp_gates(path) ==
    CombineFrom(path, 1)
    \o (IF path[Len(path)] \in DOMAIN Stations /\ Stations[path[Len(path)]].is_station
        THEN <<path[Len(path)]>> ELSE <<>>)

\* graph.formatted_route: one step with an empty action list per location of
\* the combined path that _get_location_info knows
formatted_route(path) ==
    LET combined == combine_warp_gates(path)
        known    == SelectSeq(combined,
                        LAMBDA x : x \in DOMAIN Stations \/ x \in SolarSystems)
    IN  [i \in 1..Len(known) |-> [location_id |-> known[i], actions |-> <<>>]]

----------------------------------------------------------------------------
(* The all-pairs distance table and pathfinder.py                          *)

\* nx.all_pairs_dijkstra_path_length: for every node, the weight of the
\* lightest path to each node it reaches
all_pairs_dijkstra_path_length(g) ==
    [a \in g.nodes |->
        [b \in { c \in g.nodes : PathsBetween(g, a, c) # {} } |->
            LET ps == PathsBetween(g, a, b) IN
            PathWeight(g, CHOOSE p \in ps :
                \A q \in ps : RatLeq(PathWeight(g, p), PathWeight(g, q)))]]

\* graph.shortest_path_length: self.paths[source][target], None on KeyError
shortest_path_length(table, source, target) ==
    IF source \in DOMAIN table /\ target \in DOMAIN table[source]
    THEN Some(table[source][target])
    ELSE None

filter_order_matches_not_in_graph(order_matches, g) ==
    SelectSeq(order_matches,
              LAMBDA m : m.from_station \in g.nodes /\ m.to_station \in g.nodes)

filter_order_matches_same_region(order_matches, g) ==
    SelectSeq(order_matches,
              LAMBDA m : /\ m.from_station \in DOMAIN Stations
                         /\ m.to_station \in DOMAIN Stations
                         /\ g.regions[Stations[m.from_station].solar_system_id]
                              = g.regions[Stations[m.to_station].solar_system_id])

\* total_transport_cost, or None when one of the two lengths is None
TransportCost_MissingIsZero(cost_to_source, cost_to_destination) ==
    Some(RatAdd(IF cost_to_source = None THEN RatInt(0) ELSE cost_to_source.val,
                IF cost_to_destination = None THEN RatInt(0) ELSE cost_to_destination.val))

TransportCost(cost_to_source, cost_to_destination) ==
    IF cost_to_source = None \/ cost_to_destination = None THEN None
    ELSE Some(RatAdd(cost_to_source.val, cost_to_destination.val))

\* order_match.net_profit as the loop body of calculate_net_profit leaves it
NetProfitOf(order_match, total_transport_cost) ==
    IF total_transport_cost = None THEN None
    ELSE Some(RatSub(order_match.gross_profit, total_transport_cost.val))

calculate_net_profit(order_matches, table, ship) ==
    [i \in 1..Len(order_matches) |->
        [order_matches[i] EXCEPT !.net_profit =
            NetProfitOf(order_matches[i],
                TransportCost(
                    shortest_path_length(table, ship.location, order_matches[i].from_station),
                    shortest_path_length(table, order_matches[i].from_station,
                                         order_matches[i].to_station)))]]

\* if order_match.net_profit and order_match.net_profit > 0
filter_order_matches_low_profit(order_matches) ==
    SelectSeq(order_matches,
              LAMBDA m : m.net_profit # None /\ RatLess(RatInt(0), m.net_profit.val))

----------------------------------------------------------------------------
(* graph.py: construction of the navigation graph                          *)

\* math.log, to about two decimals: the binary logarithm of n / d by
\* normalisation and repeated squaring in fixed point, times ln 2, in
\* thousandths
RECURSIVE LnNormalise(_, _, _)
LnNormalise(n, d, e) ==
    IF n \div 2 >= d THEN LnNormalise(n, 2 * d, e + 1)
    ELSE IF n < d THEN LnNormalise(2 * n, d, e - 1)
    ELSE [n |-> n, d |-> d, e |-> e]

RECURSIVE Log2Fraction(_, _)
Log2Fraction(y, k) ==
    IF k = 0 THEN 0
    ELSE IF (y * y) \div 8192 >= 16384
         THEN 2 ^ (k - 1) + Log2Fraction((y * y) \div 16384, k - 1)
         ELSE Log2Fraction((y * y) \div 8192, k - 1)

LnMilli(n, d) ==
    LET r == LnNormalise(n, d, 0)
        scale == (r.d \div 65536) + 1
    IN  ((r.e * 2048
          + Log2Fraction(((r.n \div scale) * 8192) \div (r.d \div scale), 11)) * 6931)
            \div 20480

\* log(x) / k in thousandths, for rationals x > 0 and k > 0
LogOver(x, k) == (LnMilli(x.n, x.d) * k.d) \div k.n

RatMin(a, b) == IF RatLess(b, a) THEN b ELSE a

\* graph._calculate_time_in_warp, warp_dist in metres.  Every distance of
\* the maps below is far under accel_dist = 1 AU, so `minimum_dist >
\* warp_dist` holds and cruise_time stays 0.0.  log(0) raises ValueError.
\* accel_time and decel_time are kept in thousandths of a second.
calculate_time_in_warp(warp_dist, max_warp_speed, max_subwarp_speed) ==
    LET k_accel            == max_warp_speed
        k_decel            == RatMin(RatDiv(max_warp_speed, RatInt(3)), RatInt(2))
        warp_dropout_speed == RatMin(RatDiv(max_subwarp_speed, RatInt(2)), RatInt(100))
        max_ms_warp_speed  == RatDiv(RatMul(RatMul(RatInt(warp_dist), k_accel), k_decel),
                                     RatAdd(k_accel, k_decel))
    IN  IF warp_dist = 0 THEN Raised
        ELSE Some(Rat(LogOver(RatDiv(max_ms_warp_speed, k_accel), k_accel)
                      + LogOver(RatDiv(max_ms_warp_speed, warp_dropout_speed), k_decel),
                      1000))

\* sqrt(sum((position_from[i] - position_to[i]) ** 2 for i in range(3))), for
\* positions whose distance is a whole number of metres
WarpDist(position_from, position_to) ==
    LET dx == position_from[1] - position_to[1]
        dy == position_from[2] - position_to[2]
        dz == position_from[3] - position_to[3]
    IN  CHOOSE r \in 0..(Abs(dx) + Abs(dy) + Abs(dz)) : r * r = dx * dx + dy * dy + dz * dz

\* graph._calculate_time
calculate_time(from_station, to_station, stations, ship_profile) ==
    IF stations[from_station].solar_system_id # stations[to_station].solar_system_id
    THEN Some(RatInt(9))
    ELSE LET time_in_warp == calculate_time_in_warp(
                 WarpDist(stations[from_station].position, stations[to_station].position),
                 ship_profile.max_warp_speed, ship_profile.max_subwarp_speed)
         IN  IF time_in_warp = Raised THEN Raised
             ELSE Some(RatAdd(time_in_warp.val, RatInt(2)))

\* graph._calculate_risk
calculate_risk(to_station, stations, gankers_areas) ==
    LET security == stations[to_station].security
        name     == stations[to_station].solar_system_name
    IN  RatSum(<< Rat(4, 100000),
                  RatMul(RatSub(RatInt(1), security), Rat(4, 10000)),
                  IF RatLess(security, Rat(1, 2)) THEN Rat(5, 1000) ELSE RatInt(0),
                  IF RatLess(security, Rat(1, 10)) THEN Rat(1, 2) ELSE RatInt(0),
                  IF name \in DOMAIN gankers_areas THEN gankers_areas[name] ELSE RatInt(0) >>)

\* the vehicles a graph is built for: the one of manager.py, a costlier pilot
\* and a cheaper hull
ShipPool ==
    { [max_warp_speed |-> Rat(822, 100), max_subwarp_speed |-> Rat(433, 2),
       gankers_areas |-> [a \in {"Ahbazon"} |-> Rat(1, 2)],
       player_cost |-> pr[1], risk_cost |-> pr[2]] :
      pr \in { <<PLAYER_COST, RISK_COST>>, <<RatInt(12500), RISK_COST>>,
               <<PLAYER_COST, RISK_COST \div 2>> } }

\* the distance in metres between stations 1 and 3 of a map
Gaps == {0, 1, 2, 1000}

\* the security rating of system 102 of a map
Securities == { RatInt(1), Rat(2, 5), RatInt(0) }

\* loader.load_map_data: the stations table of a map
MkMap(gap, security) ==
    [x \in DOMAIN Stations |->
        [is_station        |-> Stations[x].is_station,
         solar_system_id   |-> Stations[x].solar_system_id,
         solar_system_name |-> IF Stations[x].solar_system_id = 101 THEN "Jita"
                               ELSE "Ahbazon",
         security          |-> IF Stations[x].solar_system_id = 101 THEN RatInt(1)
                               ELSE security,
         position          |-> CASE x = 1 -> <<0, 0, 0>>
                                 [] x = 3 -> <<gap, 0, 0>>
                                 [] x = 4 -> <<0 - 400, 0, 0>>
                                 [] x = 2 -> <<0, 0, 0>>
                                 [] x = 5 -> <<0, 300, 400>>]]

MapPool == { MkMap(gap, security) : gap \in Gaps, security \in Securities }

\* graph.edges() after _add_intra_system_connections and
\* _load_star_gate_connections, each edge in the orientation it is listed
MapEdges(stations) ==
    { e \in (DOMAIN stations) \X (DOMAIN stations) :
        /\ e[1] < e[2]
        /\ stations[e[1]].solar_system_id = stations[e[2]].solar_system_id }
    \cup {<<4, 5>>}

\* graph._add_time_and_risk: Raised when a time cannot be computed
add_time_and_risk(stations, ship_profile) ==
    IF \E e \in MapEdges(stations) :
           calculate_time(e[1], e[2], stations, ship_profile) = Raised
    THEN Raised
    ELSE [edges |-> { [u |-> e[1], v |-> e[2],
                       time |-> calculate_time(e[1], e[2], stations, ship_profile).val,
                       risk |-> calculate_risk(e[2], stations, ship_profile.gankers_areas),
                       weight |-> RatAdd(
                           RatMul(calculate_time(e[1], e[2], stations, ship_profile).val,
                                  ship_profile.player_cost),
                           RatMul(RatInt(ship_profile.risk_cost),
                                  calculate_risk(e[2], stations,
                                                 ship_profile.gankers_areas)))] :
                     e \in MapEdges(stations) },
          nodes |-> DOMAIN stations,
          regions |-> OneRegion]

\* the graphs of the pool of maps and vehicles, before their tables are loaded
Weighted == [m \in MapPool |-> [s \in ShipPool |-> add_time_and_risk(m, s)]]

\* graph._load_paths: the cache file when it exists, else the table computed
\* and written; networkx raises ValueError on a negative weight
load_paths_NoNegativeCheck(file, g) ==
    IF file # None THEN [paths |-> file.table, file |-> file]
    ELSE [paths |-> all_pairs_dijkstra_path_length(g),
          file  |-> [table |-> all_pairs_dijkstra_path_length(g)]]

load_paths(file, g) ==
    IF file # None THEN [paths |-> file.table, file |-> file]
    ELSE IF \E e \in g.edges : RatLess(e.weight, RatInt(0)) THEN Raised
    ELSE [paths |-> all_pairs_dijkstra_path_length(g),
          file  |-> [table |-> all_pairs_dijkstra_path_length(g)]]

----------------------------------------------------------------------------
(* route.py: select_trades                                                 *)

MAX_TRADES_TO_CONSIDER == 20000

\* list.sort(key=..., reverse=True) on the keys of the first k elements: the
\* indices in sorted order; equal keys keep their original order
RECURSIVE SortIdxDesc_TiesReversed(_, _)
SortIdxDesc_TiesReversed(keys, k) ==
    IF k = 0 THEN <<>>
    ELSE LET rest == SortIdxDesc_TiesReversed(keys, k - 1)
             gt   == SelectSeq(rest, LAMBDA j : RatLess(keys[k], keys[j]))
             le   == SelectSeq(rest, LAMBDA j : RatLeq(keys[j], keys[k]))
         IN  gt \o <<k>> \o le

RECURSIVE SortIdxDesc(_, _)
SortIdxDesc(keys, k) ==
    IF k = 0 THEN <<>>
    ELSE LET rest == SortIdxDesc(keys, k - 1)
             ge   == SelectSeq(rest, LAMBDA j : RatLeq(keys[k], keys[j]))
             lt   == SelectSeq(rest, LAMBDA j : RatLess(keys[j], keys[k]))
         IN  ge \o <<k>> \o lt

SortDescBy(s, keys) ==
    LET idx == SortIdxDesc(keys, Len(s)) IN [i \in 1..Len(s) |-> s[idx[i]]]

\* stations.index(x)
IndexOf(stations, x) == CHOOSE i \in 1..Len(stations) :
                            stations[i] = x /\ \A j \in 1..(i - 1) : stations[j] # x

InList(stations, x) == \E i \in 1..Len(stations) : stations[i] = x

\* the comprehension at the head of select_trades
Eligible(stations, trade) ==
    /\ InList(stations, trade.from_station)
    /\ InList(stations, trade.to_station)
    /\ IndexOf(stations, trade.from_station) < IndexOf(stations, trade.to_station)

\* key of filtered_trades.sort
CargoYield(trade) ==
    IF trade.cargo > 0 THEN RatDiv(trade.gross_profit, RatInt(trade.cargo))
    ELSE RatInt(0)

\* used_orders.get(order_id, quantity)
Remaining(used_orders, order_id, quantity) ==
    IF order_id \in DOMAIN used_orders THEN used_orders[order_id] ELSE quantity

\* max_quantity = min(quantity, from_remaining, to_remaining,
\*                    max_quantity_by_cargo, max_quantity_by_capital)
MaxQuantity_NoBudget(quantity, from_remaining, to_remaining, by_cargo, by_capital) ==
    Min(quantity, Min(from_remaining, to_remaining))

MaxQuantity(quantity, from_remaining, to_remaining, by_cargo, by_capital) ==
    Min(quantity, Min(from_remaining, Min(to_remaining, Min(by_cargo, by_capital))))

\* used_orders[from_order] = from_remaining - max_quantity
\* used_orders[to_order]   = to_remaining - max_quantity
UsedAfter_NotRecorded(used_orders, from_order, to_order, from_remaining, to_remaining, max_quantity) ==
    used_orders

UsedAfter(used_orders, from_order, to_order, from_remaining, to_remaining, max_quantity) ==
    [o \in DOMAIN used_orders \cup {from_order, to_order} |->
        IF o = to_order THEN to_remaining - max_quantity
        ELSE IF o = from_order THEN from_remaining - max_quantity
        ELSE used_orders[o]]

\* gross_profit of the re-quantified Trade
UpdatedGrossProfit(trade, max_quantity) ==
    RatInt((trade.to_price - trade.from_price) * max_quantity)

\* the rest of an iteration once max_quantity is known: the skip, or the
\* bookkeeping and the re-quantified Trade; st.log records, for every accepted
\* trade, the running totals the iteration started from
Accept(st, trade, ship, from_remaining, to_remaining, max_quantity) ==
    IF max_quantity <= 0 THEN st
    ELSE [used_orders |-> UsedAfter(st.used_orders, trade.from_order_id, trade.to_order_id,
                                    from_remaining, to_remaining, max_quantity),
          optimized   |-> Append(st.optimized,
                                 [trade EXCEPT !.quantity = max_quantity,
                                               !.cargo = trade.item_cargo_volume * max_quantity,
                                               !.gross_profit = UpdatedGrossProfit(trade, max_quantity),
                                               !.net_profit = None]),
          cargo       |-> st.cargo + trade.item_cargo_volume * max_quantity,
          capital     |-> st.capital + trade.from_price * max_quantity,
          stopped     |-> \/ st.cargo + trade.item_cargo_volume * max_quantity >= ship.cargo
                          \/ st.capital + trade.from_price * max_quantity >= MAX_CAPITAL,
          log         |-> Append(st.log, [cargo_before   |-> st.cargo,
                                          capital_before |-> st.capital,
                                          trade          |-> trade])]

\* max_quantity from the two remainders and the room left under the budgets
Quantify(st, trade, ship, from_remaining, to_remaining) ==
    Accept(st, trade, ship, from_remaining, to_remaining,
           MaxQuantity(trade.quantity, from_remaining, to_remaining,
                       (ship.cargo - st.cargo) \div trade.item_cargo_volume,
                       (MAX_CAPITAL - st.capital) \div trade.from_price))

\* one iteration of the loop over filtered_trades (none once the loop broke)
SelectStep(st, trade, ship) ==
    IF st.stopped THEN st
    ELSE Quantify(st, trade, ship,
                  Remaining(st.used_orders, trade.from_order_id, trade.quantity),
                  Remaining(st.used_orders, trade.to_order_id, trade.quantity))

RECURSIVE SelectLoop(_, _, _)
SelectLoop(st, filtered, ship) ==
    IF filtered = <<>> THEN st
    ELSE SelectLoop(SelectStep(st, Head(filtered), ship), Tail(filtered), ship)

\* optimized: the returned list; log and originals: what it was made from
SelectResult(final, sorted) ==
    [optimized |-> final.optimized, log |-> final.log, originals |-> sorted]

\* the loop over the sorted eligible trades
SelectSorted(sorted, ship) ==
    SelectResult(SelectLoop([used_orders |-> <<>>, optimized |-> <<>>, cargo |-> 0,
                             capital |-> 0, stopped |-> FALSE, log |-> <<>>],
                            sorted, ship),
                 sorted)

SortByCargoYield(filtered) ==
    SortDescBy(filtered, [i \in 1..Len(filtered) |-> CargoYield(filtered[i])])

select_trades(stations, trades, ship) ==
    SelectSorted(SortByCargoYield(SelectSeq(trades, LAMBDA t : Eligible(stations, t))), ship)

----------------------------------------------------------------------------
(* route.py: set_actions                                                   *)

BuyAction(trade) ==
    [action_type |-> "buy", item |-> trade.item_name, type_id |-> trade.type_id,
     quantity |-> trade.quantity, price |-> trade.from_price]

SellAction(trade) ==
    [action_type |-> "sell", item |-> trade.item_name, type_id |-> trade.type_id,
     quantity |-> trade.quantity, price |-> trade.to_price]

\* the inner loop over the steps for one trade, from step i on
RECURSIVE ActStepsFrom(_, _, _)
ActStepsFrom(st, trade, i) ==
    IF i > Len(st.route) THEN st
    ELSE LET step    == st.route[i]
             isBuy   == trade.from_station = step.location_id
             bought  == IF isBuy THEN st.bought_items \cup {trade.type_id}
                        ELSE st.bought_items
             acts1   == IF isBuy THEN Append(step.actions, BuyAction(trade))
                        ELSE step.actions
             isSell  == trade.to_station = step.location_id /\ trade.type_id \in bought
             acts2   == IF isSell THEN Append(acts1, SellAction(trade)) ELSE acts1
         IN  ActStepsFrom([route        |-> [st.route EXCEPT ![i].actions = acts2],
                           bought_items |-> bought],
                          trade, i + 1)

RECURSIVE ActTrades(_, _)
ActTrades(st, trades) ==
    IF trades = <<>> THEN st
    ELSE ActTrades(ActStepsFrom(st, Head(trades), 1), Tail(trades))

\* (action_type, item, price) compared as a tuple
ActionBefore(a, b) ==
    \/ a.action_type = "buy" /\ b.action_type = "sell"
    \/ a.action_type = b.action_type /\ a.item < b.item
    \/ a.action_type = b.action_type /\ a.item = b.item /\ a.price < b.price

\* step.actions.sort(key=...): stable, ascending
RECURSIVE SortActions(_)
SortActions(s) ==
    IF s = <<>> THEN <<>>
    ELSE LET x    == s[Len(s)]
             rest == SortActions(SubSeq(s, 1, Len(s) - 1))
             le   == SelectSeq(rest, LAMBDA a : ~ActionBefore(x, a))
             gt   == SelectSeq(rest, LAMBDA a : ActionBefore(x, a))
         IN  le \o <<x>> \o gt

set_actions(route, trades) ==
    LET done == ActTrades([route |-> route, bought_items |-> {}], trades).route
    IN  [i \in 1..Len(done) |-> [done[i] EXCEPT !.actions = SortActions(done[i].actions)]]

----------------------------------------------------------------------------
(* route.py: route                                                         *)

\* "ship_cost" of the vehicle profile Manager keeps
SHIP_COST == 50000000

\* getattr(ship, 'ship_cost', 0.0): the Ship of pathfinder.py has no field
\* ship_cost, and a key of the profile dict is not an attribute
ShipCost(ship) == IF "ship_cost" \in DOMAIN ship THEN ship.ship_cost ELSE 0

\* key of trades.sort at the head of route
Density(trade) ==
    IF trade.from_price * trade.quantity > 0
    THEN RatDiv(trade.gross_profit, RatInt(trade.from_price * trade.quantity))
    ELSE RatInt(0)

\* if profit_rate > best_profit_rate
Improves_OrEqual(profit_rate, best_profit_rate) == RatLeq(best_profit_rate, profit_rate)

Improves_Always(profit_rate, best_profit_rate) == TRUE

Improves(profit_rate, best_profit_rate) == RatLess(best_profit_rate, profit_rate)

\* sums over the edges of the path
PathRisk(g, path) ==
    RatSum([i \in 1..(Len(path) - 1) |-> EdgeOf(g, path[i], path[i + 1]).risk])

PathTime(g, path) ==
    RatSum([i \in 1..(Len(path) - 1) |-> EdgeOf(g, path[i], path[i + 1]).time])

TotalProfit(optimized) ==
    RatSum([i \in 1..Len(optimized) |-> optimized[i].gross_profit])

Capital(ship, optimized) ==
    ShipCost(ship)
    + IntSum([i \in 1..Len(optimized) |-> optimized[i].from_price * optimized[i].quantity])

\* net_profit = total_profit - risk * capital
NetProfit(total_profit, risk, capital) ==
    RatSub(total_profit, RatMul(risk, RatInt(capital)))

RouteInfo(net_profit, total_profit, risk, transport_time, capital) ==
    [profit_rate    |-> RatDiv(net_profit, transport_time),
     risk           |-> risk,
     capital        |-> capital,
     transport_time |-> transport_time,
     gross_profit   |-> total_profit,
     net_profit     |-> net_profit]

\* from the zero-time test to the rate
ScoreTimed(sel, path, total_profit, risk, transport_time, capital) ==
    IF transport_time = RatInt(0)
    THEN [kind |-> "zero_time", sel |-> sel]
    ELSE [kind |-> "scored", sel |-> sel, path |-> path,
          info |-> RouteInfo(NetProfit(total_profit, risk, capital),
                             total_profit, risk, transport_time, capital)]

\* path = shortest_path(...)[:-1] + shortest_path(...); an absent leg raises
\* into the except clause
ScoreLegs(sel, ship, g, leg1, leg2) ==
    IF leg1 \in {None, Raised} \/ leg2 \in {None, Raised}
    THEN [kind |-> "no_path", sel |-> sel]
    ELSE ScoreTimed(sel, SubSeq(leg1.val, 1, Len(leg1.val) - 1) \o leg2.val,
                    TotalProfit(sel.optimized),
                    PathRisk(g, SubSeq(leg1.val, 1, Len(leg1.val) - 1) \o leg2.val),
                    PathTime(g, SubSeq(leg1.val, 1, Len(leg1.val) - 1) \o leg2.val),
                    Capital(ship, sel.optimized))

ScoreSelected(sel, trade, ship, g) ==
    IF sel.optimized = <<>> \/ RatLeq(TotalProfit(sel.optimized), RatInt(0))
    THEN [kind |-> "no_trades", sel |-> sel]
    ELSE ScoreLegs(sel, ship, g,
                   shortest_path(g, ship.location, trade.from_station),
                   shortest_path(g, trade.from_station, trade.to_station))

\* the body of the loop for one unseen skeleton, up to the comparison with
\* the best rate
Score(trade, trades, ship, g) ==
    ScoreSelected(select_trades(<<ship.location, trade.from_station, trade.to_station>>,
                                trades, ship),
                  trade, ship, g)

----------------------------------------------------------------------------
(* State                                                                   *)

ShipLocations == {1, 2, 3}

ShipCargos == {4, 6}

VARIABLES
    pc,               \* position of the run: match, rematch, pathfind, route, loop,
                      \* returned, done
    orders,           \* the order snapshot (Market.orders)
    orders0,          \* history: the snapshot as fetched
    ship,             \* the vehicle: location, cargo
    graph,            \* the navigation graph handed to pathfinder and route
    paths,            \* graph.paths: the distance table the graph serves
    matched1,         \* Trades of the first matcher run
    matched2,         \* Trades of the second matcher run
    annotated,        \* pathfinder: the Trades calculate_net_profit annotated
    pool,             \* pathfinder: the Trades it returned
    trades,           \* route: the list argument (sorted in place)
    idx,              \* route: position of the loop over trades
    seen_routes,      \* route: skeletons already evaluated
    best_profit_rate, \* route
    best_route,       \* route
    best_route_info,  \* route
    selection,        \* the last select_trades call: its skeleton and result
    evaluated,        \* history: the scored skeletons, in evaluation order
    run,              \* which run of route is in progress
    result1,          \* what the first run of route returned
    paths_file,       \* the cache file PATHS_FILE: None, or the table pickled in it
    built,            \* history: the map and vehicle the graph was constructed for
    served,           \* history: the last call of the graph, when it was
                      \* shortest_path_length, and its answer
    found,            \* history: the last call of the graph, when it was
                      \* shortest_path, and its outcome
    updating_orders,  \* Manager.updating_orders, the busy flag
    workers,          \* the refresh threads Manager.update started, in order: their
                      \* position, the locals of Market.update_orders, and as
                      \* history Market.orders at the call (before), whether
                      \* update_orders returned, whether the body raised
    tick,             \* history: how the last Manager.update call went
    market_orders,    \* Market.orders
    expires_times,    \* Market.expires_times
    m_route,          \* Manager.route, tagged with the call that stored it
    m_route_info,     \* Manager.route_info, tagged likewise
    routers,          \* the create_route background tasks, in order
    observed,         \* what the last reader of the manager saw
    current_region,   \* snipe: the region argument
    potential_snipe   \* snipe: what it returned

pathVars == <<paths, annotated, pool>>

vars == <<pc, orders, orders0, ship, graph, matched1, matched2, pathVars, trades, idx,
          seen_routes, best_profit_rate, best_route, best_route_info,
          selection, evaluated, run, result1, paths_file, built, served, found,
          updating_orders, workers, tick, market_orders, expires_times,
          m_route, m_route_info, routers, observed, current_region,
          potential_snipe>>

\* market.py REGION_IDS, two of them
REGION_IDS == <<10, 20>>

\* Manager.__init__ and Market.__init__
ManagerInit ==
    /\ updating_orders = FALSE
    /\ workers = <<>>
    /\ tick = "none"
    /\ market_orders = <<>>
    /\ expires_times = [r \in {REGION_IDS[k] : k \in 1..Len(REGION_IDS)} |-> "none"]
    /\ m_route = [steps |-> Some(<<>>), gen |-> 0]
    /\ m_route_info = [info |-> Some(<<>>), gen |-> 0]
    /\ routers = <<>>
    /\ observed = None

snipeVars == <<current_region, potential_snipe>>

\* no snipe call in progress
SnipeIdle ==
    /\ current_region = REGION_IDS[1]
    /\ potential_snipe = None

NoSelection == [stations |-> <<>>, optimized |-> <<>>, log |-> <<>>, originals |-> <<>>]

Init ==
    /\ pc = "match"
    /\ graph \in { GraphPool[i] : i \in 1..Len(GraphPool) }
    /\ paths = all_pairs_dijkstra_path_length(graph)
    /\ orders \in Snapshots
    /\ orders0 = orders
    /\ ship \in [location : ShipLocations, cargo : ShipCargos]
    /\ matched1 = <<>>
    /\ matched2 = <<>>
    /\ annotated = <<>>
    /\ pool = <<>>
    /\ trades = <<>>
    /\ idx = 0
    /\ seen_routes = {}
    /\ best_profit_rate = RatInt(0)
    /\ best_route = None
    /\ best_route_info = None
    /\ selection = NoSelection
    /\ evaluated = <<>>
    /\ run = 0
    /\ result1 = <<None, None>>
    /\ paths_file = None
    /\ built = None
    /\ served = None
    /\ found = None
    /\ ManagerInit
    /\ SnipeIdle

constructionVars == <<paths_file, built, served, found>>

managerVars == <<updating_orders, workers, tick, market_orders, expires_times,
                 m_route, m_route_info, routers, observed>>

\* the state the matcher, pathfinder and route leave alone
otherVars == <<constructionVars, managerVars, snipeVars>>

routeVars == <<trades, idx, seen_routes, best_profit_rate, best_route,
               best_route_info, selection, evaluated, run, result1>>

\* arbitrage(self.market.orders, self.ship["cargo"]), first call
Match ==
    /\ pc = "match"
    /\ LET r == arbitrage(orders, ship.cargo) IN
        /\ matched1' = r.trades
        /\ orders' = r.snapshot
    /\ pc' = "rematch"
    /\ UNCHANGED <<orders0, ship, graph, matched2, pathVars, routeVars, otherVars>>

\* the same call again on the snapshot the first call left
Rematch ==
    /\ pc = "rematch"
    /\ LET r == arbitrage(orders, ship.cargo) IN
        /\ matched2' = r.trades
        /\ orders' = r.snapshot
    /\ pc' = "pathfind"
    /\ UNCHANGED <<orders0, ship, graph, matched1, pathVars, routeVars, otherVars>>

\* pathfinder(order_matches, self.graph, self.ship)
Pathfind ==
    /\ pc = "pathfind"
    /\ annotated' = calculate_net_profit(
            filter_order_matches_same_region(
                filter_order_matches_not_in_graph(matched2, graph), graph),
            paths, ship)
    /\ pool' = filter_order_matches_low_profit(annotated')
    /\ pc' = "route"
    /\ UNCHANGED <<orders, orders0, ship, graph, paths, matched1, matched2, routeVars, otherVars>>

\* route(): the in-place sort and the initialisation before the loop.  The
\* first run gets pathfinder's list, the second the list the first run left.
RouteBegin ==
    /\ pc \in {"route", "returned"}
    /\ LET arg == IF pc = "route" THEN pool ELSE trades IN
        trades' = SortDescBy(arg, [i \in 1..Len(arg) |-> Density(arg[i])])
    /\ idx' = 1
    /\ seen_routes' = {}
    /\ best_profit_rate' = RatInt(0)
    /\ best_route' = None
    /\ best_route_info' = None
    /\ evaluated' = <<>>
    /\ selection' = NoSelection
    /\ run' = run + 1
    /\ pc' = "loop"
    /\ UNCHANGED <<orders, orders0, ship, graph, matched1, matched2, pathVars, result1, otherVars>>

\* the comparison with the best rate and the replacement of the best route
Compare(info, final_route) ==
    IF Improves(info.profit_rate, best_profit_rate)
    THEN /\ best_route' = Some(final_route)
         /\ best_route_info' = Some(info)
         /\ best_profit_rate' = info.profit_rate
    ELSE UNCHANGED <<best_profit_rate, best_route, best_route_info>>

\* an unseen skeleton: sc is what its evaluation came to
Consider(route_stations, sc) ==
    /\ seen_routes' = seen_routes \cup {route_stations}
    /\ selection' = [stations  |-> route_stations,
                     optimized |-> sc.sel.optimized,
                     log       |-> sc.sel.log,
                     originals |-> sc.sel.originals]
    /\ IF sc.kind = "scored"
       THEN /\ evaluated' = Append(evaluated,
                    [stations |-> route_stations, info |-> sc.info,
                     optimized |-> sc.sel.optimized,
                     route    |-> set_actions(formatted_route(sc.path), sc.sel.optimized)])
            /\ Compare(sc.info, set_actions(formatted_route(sc.path), sc.sel.optimized))
       ELSE UNCHANGED <<best_profit_rate, best_route, best_route_info, evaluated>>

\* one iteration of `for trade in trades[:MAX_TRADES_TO_CONSIDER]`
RouteIter ==
    /\ pc = "loop"
    /\ idx <= Min(Len(trades), MAX_TRADES_TO_CONSIDER)
    /\ IF <<ship.location, trades[idx].from_station, trades[idx].to_station>> \in seen_routes
       THEN UNCHANGED <<seen_routes, best_profit_rate, best_route,
                        best_route_info, selection, evaluated>>
       ELSE Consider(<<ship.location, trades[idx].from_station, trades[idx].to_station>>,
                     Score(trades[idx], trades, ship, graph))
    /\ idx' = idx + 1
    /\ UNCHANGED <<pc, orders, orders0, ship, graph, matched1, matched2, pathVars,
                   trades, run, result1, otherVars>>

\* return best_route, best_route_info
RouteReturn ==
    /\ pc = "loop"
    /\ idx > Min(Len(trades), MAX_TRADES_TO_CONSIDER)
    /\ pc' = IF run = 1 THEN "returned" ELSE "done"
    /\ result1' = IF run = 1 THEN <<best_route, best_route_info>> ELSE result1
    /\ UNCHANGED <<orders, orders0, ship, graph, matched1, matched2, pathVars, trades, idx,
                   seen_routes, best_profit_rate, best_route, best_route_info,
                   selection, evaluated, run, otherVars>>

Next == Match \/ Rematch \/ Pathfind \/ RouteBegin \/ RouteIter \/ RouteReturn

Spec == Init /\ [][Next]_vars

----------------------------------------------------------------------------
(* Construction of navigation graphs, one after the other, in a process    *)
(* whose cache directory starts empty                                      *)

\* the state graph construction leaves alone
pipelineVars == <<pc, orders, orders0, ship, matched1, matched2, annotated, pool, routeVars>>

\* the matcher, pathfinder and route at rest
PipelineIdle ==
    /\ orders = <<>>
    /\ orders0 = <<>>
    /\ matched1 = <<>>
    /\ matched2 = <<>>
    /\ annotated = <<>>
    /\ pool = <<>>
    /\ trades = <<>>
    /\ idx = 0
    /\ seen_routes = {}
    /\ best_profit_rate = RatInt(0)
    /\ best_route = None
    /\ best_route_info = None
    /\ selection = NoSelection
    /\ evaluated = <<>>
    /\ run = 0
    /\ result1 = <<None, None>>

InitGraph ==
    /\ pc = "graph"
    /\ PipelineIdle
    /\ ship = [location |-> 1, cargo |-> 4]
    /\ graph = None
    /\ paths = <<>>
    /\ paths_file = None
    /\ built = None
    /\ served = None
    /\ found = None
    /\ ManagerInit
    /\ SnipeIdle

\* NavigationGraph.__init__ for one map and one vehicle; when it raises no
\* graph is constructed and the one in use stays
Construct(stations, ship_profile) ==
    /\ Weighted[stations][ship_profile] # Raised
    /\ load_paths(paths_file, Weighted[stations][ship_profile]) # Raised
    /\ graph' = Weighted[stations][ship_profile]
    /\ paths' = load_paths(paths_file, Weighted[stations][ship_profile]).paths
    /\ paths_file' = load_paths(paths_file, Weighted[stations][ship_profile]).file
    /\ built' = [stations |-> stations, ship |-> ship_profile,
                 loaded |-> paths_file # None,
                 writer |-> IF paths_file = None
                            THEN [stations |-> stations, ship |-> ship_profile]
                            ELSE built.writer]
    /\ served' = None
    /\ found' = None
    /\ UNCHANGED <<pipelineVars, managerVars, snipeVars>>

\* graph.shortest_path_length(source, target)
Lookup(source, target) ==
    /\ graph # None
    /\ served' = [source |-> source, target |-> target,
                  length |-> shortest_path_length(paths, source, target)]
    /\ found' = None
    /\ UNCHANGED <<graph, paths, paths_file, built, pipelineVars, managerVars, snipeVars>>

\* the ids a caller asks a path for: the nodes, and an id the graph has no
\* node for
LocationIds == 1..6

\* graph.shortest_path(source, target)
FindPath(source, target) ==
    /\ graph # None
    /\ found' = Some([source |-> source, target |-> target,
                      path |-> shortest_path(graph, source, target)])
    /\ served' = None
    /\ UNCHANGED <<graph, paths, paths_file, built, pipelineVars, managerVars, snipeVars>>

NextGraph ==
    \/ \E stations \in MapPool, ship_profile \in ShipPool : Construct(stations, ship_profile)
    \/ \E source \in 1..5, target \in 1..5 : Lookup(source, target)
    \/ \E source \in LocationIds, target \in LocationIds : FindPath(source, target)

SpecGraph == InitGraph /\ [][NextGraph]_vars

\* ---------------------------------------------------------------------------
\* manager.py, main.py, market.py, esi/api.py: the update loop and its threads
\*
\* start_manager calls Manager.update every two seconds, one call at a time.
\* An update may start a refresh thread (target_function); POST /create_route
\* hands Manager.create_route to a background task, which runs it on a pool
\* thread; GET /route, /route_info and /data_stream read the manager from the
\* event loop.  The threads interleave at the attribute loads and stores.
\*
\* manager.py passes `log` to Market.update_orders, which declares no such
\* parameter; the call is followed into Market.update_orders as written there.
\* ---------------------------------------------------------------------------

\* how many refresh threads a behaviour may start
MaxWorkers == 2

\* how many create_route requests a behaviour may make
MaxRouters == 2

\* manager.py l.80, without the test of the flag
MayStart_Always(flag) == TRUE

\* manager.py l.80: `if not self.updating_orders`
MayStart(flag) == ~flag

\* manager.py l.88-89, with the store after the body instead of in `finally`
FlagAfterBody_OnlyOnReturn(flag, raised) == IF raised THEN flag ELSE FALSE

\* manager.py l.88-89: `finally: self.updating_orders = False`
FlagAfterBody(flag, raised) == FALSE

\* market.py l.83, with the store inside the loop over REGION_IDS
StoreOrders_EachRegion(current, updated_orders, finished) == updated_orders

\* market.py l.83: `self.orders = updated_orders`, after the loop
StoreOrders(current, updated_orders, finished) ==
    IF finished THEN updated_orders ELSE current

\* market.py check_expired, answering that every region has expired
check_expired_Always(times, region_id) == TRUE

\* market.py check_expired: no expiry recorded, or the expiry has passed
check_expired(times, region_id) == times[region_id] \in {"none", "past"}

\* manager.py l.73-77: drop the first step once the ship is at the second
TrimRoute(steps, location) ==
    IF Len(steps) >= 2 /\ steps[2] = location THEN Tail(steps) ELSE steps

\* what route.route can return: (None, None), or a route with its route_info
\* (the route_info stands as the stops of the route it was computed for)
RouteResults ==
    { [route |-> None, info |-> None],
      [route |-> Some(<<1, 2>>), info |-> Some(<<1, 2>>)] }

\* where get_location can find the ship: the stops of the route
Locations == {1, 2}

\* what one download of a region can do: succeed; have the first page answered
\* with an HTTP error; raise before the expiry is stored (requests.get raising
\* ConnectionError, strptime on a missing Expires header); raise after it
\* (add_item_info_to_orders)
Downloads == {"ok", "http_error", "raises", "raises_late"}

InitManager ==
    /\ pc = "manager"
    /\ PipelineIdle
    /\ ship = [location |-> 1, cargo |-> 4]
    /\ graph = None
    /\ paths = <<>>
    /\ paths_file = None
    /\ built = None
    /\ served = None
    /\ found = None
    /\ ManagerInit
    /\ SnipeIdle

frozenVars == <<pc, orders, orders0, graph, matched1, matched2, pathVars, routeVars,
                constructionVars, snipeVars>>

\* Manager.update, one call
Tick(location) ==
    /\ ship' = [ship EXCEPT !.location = location]
    /\ IF m_route.steps = None THEN
            \* len(None) raises TypeError, which start_manager logs
            /\ tick' = "raised"
            /\ UNCHANGED <<m_route, updating_orders, workers>>
       ELSE IF Len(m_route.steps.val) = 1 THEN
            /\ tick' = "arrived"
            /\ m_route' = [m_route EXCEPT !.steps = Some(<<>>)]
            /\ UNCHANGED <<updating_orders, workers>>
       ELSE
            /\ m_route' = [m_route EXCEPT !.steps = Some(TrimRoute(m_route.steps.val, location))]
            /\ IF MayStart(updating_orders) THEN
                    /\ Len(workers) < MaxWorkers
                    /\ tick' = "started"
                    /\ updating_orders' = TRUE
                    /\ workers' = Append(workers,
                            [pc |-> "update_orders", region |-> 1, updated_orders |-> <<>>,
                             regions_updated |-> <<>>, before |-> market_orders,
                             returned |-> FALSE, raised |-> FALSE])
               ELSE
                    /\ tick' = "skipped"
                    /\ UNCHANGED <<updating_orders, workers>>
    /\ UNCHANGED <<market_orders, expires_times, m_route_info, routers, observed, frozenVars>>

\* the clock passes the expiry of a region
TimePasses(region_id) ==
    /\ expires_times[region_id] = "future"
    /\ expires_times' = [expires_times EXCEPT ![region_id] = "past"]
    /\ UNCHANGED <<updating_orders, workers, tick, market_orders, m_route, m_route_info,
                   routers, observed, ship, frozenVars>>

\* the worker after one region of the loop in Market.update_orders went through
AfterRegion(w, updated_orders, regions_updated) ==
    IF w.region < Len(REGION_IDS) THEN
        [w EXCEPT !.region = w.region + 1, !.updated_orders = updated_orders,
                  !.regions_updated = regions_updated]
    ELSE
        \* return regions_updated; `if updated_regions:` in target_function
        [w EXCEPT !.pc = IF regions_updated # <<>> THEN "snipe" ELSE "finally",
                  !.returned = TRUE,
                  !.updated_orders = updated_orders,
                  !.regions_updated = regions_updated]

\* one iteration of the loop in Market.update_orders, run by refresh thread i
WorkerRegion(i, download) ==
    /\ i \in 1..Len(workers)
    /\ workers[i].pc = "update_orders"
    /\ LET w == workers[i]
           region_id == REGION_IDS[w.region]
           last == w.region = Len(REGION_IDS)
       IN
       IF ~check_expired(expires_times, region_id) THEN
            /\ download = "ok"
            /\ LET kept == SelectSeq(market_orders, LAMBDA o : o.region_id = region_id) IN
                /\ workers' = [workers EXCEPT ![i] =
                        AfterRegion(w, w.updated_orders \o kept, w.regions_updated)]
                /\ market_orders' = StoreOrders(market_orders, w.updated_orders \o kept, last)
            /\ UNCHANGED expires_times
       ELSE IF download = "ok" THEN
            /\ expires_times' = [expires_times EXCEPT ![region_id] = "future"]
            /\ LET fetched == <<[region_id |-> region_id, batch |-> i]>> IN
                /\ workers' = [workers EXCEPT ![i] =
                        AfterRegion(w, w.updated_orders \o fetched,
                                    Append(w.regions_updated, region_id))]
                /\ market_orders' = StoreOrders(market_orders, w.updated_orders \o fetched, last)
       ELSE IF download = "http_error" THEN
            \* esi/api.py l.175: request_orders logs the HTTPError and puts nothing
            \* in the queue; l.180: order_queue.get() waits for an item
            /\ workers' = [workers EXCEPT ![i].pc = "queue_get"]
            /\ market_orders' = StoreOrders(market_orders, w.updated_orders, FALSE)
            /\ UNCHANGED expires_times
       ELSE
            /\ expires_times' = IF download = "raises_late"
                                THEN [expires_times EXCEPT ![region_id] = "future"]
                                ELSE expires_times
            /\ workers' = [workers EXCEPT ![i].pc = "finally", ![i].raised = TRUE]
            /\ market_orders' = StoreOrders(market_orders, w.updated_orders, FALSE)
    /\ UNCHANGED <<updating_orders, tick, m_route, m_route_info, routers, observed, ship,
                   frozenVars>>

\* Manager.snipe_callback in refresh thread i: it returns, or it raises
WorkerSnipe(i, raises) ==
    /\ i \in 1..Len(workers)
    /\ workers[i].pc = "snipe"
    /\ workers' = [workers EXCEPT ![i].pc = "finally", ![i].raised = raises]
    /\ UNCHANGED <<updating_orders, tick, market_orders, expires_times, m_route,
                   m_route_info, routers, observed, ship, frozenVars>>

\* the end of target_function in refresh thread i
WorkerFinally(i) ==
    /\ i \in 1..Len(workers)
    /\ workers[i].pc = "finally"
    /\ updating_orders' = FlagAfterBody(updating_orders, workers[i].raised)
    /\ workers' = [workers EXCEPT ![i] = [pc |-> "exited", raised |-> workers[i].raised]]
    /\ UNCHANGED <<tick, market_orders, expires_times, m_route, m_route_info, routers,
                   observed, ship, frozenVars>>

\* main.py create_route: background_tasks.add_task(manager.create_route)
RequestRoute ==
    /\ Len(routers) < MaxRouters
    /\ routers' = Append(routers, [pc |-> "computing", result |-> None])
    /\ UNCHANGED <<updating_orders, workers, tick, market_orders, expires_times, m_route,
                   m_route_info, observed, ship, frozenVars>>

\* Manager.create_route in task i: arbitrage, pathfinder and route.route have
\* returned, and the first target of the assignment, self.route, is stored
RouterCompute(i, result) ==
    /\ i \in 1..Len(routers)
    /\ routers[i].pc = "computing"
    /\ m_route' = [steps |-> result.route, gen |-> i]
    /\ routers' = [routers EXCEPT ![i] = [pc |-> "store_info", result |-> Some(result)]]
    /\ UNCHANGED <<updating_orders, workers, tick, market_orders, expires_times,
                   m_route_info, observed, ship, frozenVars>>

\* Manager.create_route in task i: the second target, self.route_info, is
\* stored; set_waypoints follows
RouterStoreInfo(i) ==
    /\ i \in 1..Len(routers)
    /\ routers[i].pc = "store_info"
    /\ m_route_info' = [info |-> routers[i].result.val.info, gen |-> i]
    /\ routers' = [routers EXCEPT ![i] = [pc |-> "exited", result |-> None]]
    /\ UNCHANGED <<updating_orders, workers, tick, market_orders, expires_times, m_route,
                   observed, ship, frozenVars>>

\* main.py read_route, read_route_info, data_stream
Read ==
    /\ observed' = Some([route |-> m_route, route_info |-> m_route_info])
    /\ UNCHANGED <<updating_orders, workers, tick, market_orders, expires_times, m_route,
                   m_route_info, routers, ship, frozenVars>>

\* the steps of the refresh threads
WorkerStep ==
    \/ \E i \in 1..MaxWorkers, download \in Downloads : WorkerRegion(i, download)
    \/ \E i \in 1..MaxWorkers, raises \in BOOLEAN : WorkerSnipe(i, raises)
    \/ \E i \in 1..MaxWorkers : WorkerFinally(i)

\* the steps of the create_route tasks
RouterStep ==
    \/ \E i \in 1..MaxRouters, result \in RouteResults : RouterCompute(i, result)
    \/ \E i \in 1..MaxRouters : RouterStoreInfo(i)

UpdateStep == \E location \in Locations : Tick(location)

NextManager ==
    \/ UpdateStep
    \/ \E k \in 1..Len(REGION_IDS) : TimePasses(REGION_IDS[k])
    \/ WorkerStep
    \/ RequestRoute
    \/ RouterStep
    \/ Read

SpecManager == InitManager /\ [][NextManager]_vars

\* the update loop keeps calling Manager.update, and a thread that can run runs
FairSpecManager ==
    SpecManager /\ WF_vars(UpdateStep) /\ WF_vars(WorkerStep) /\ WF_vars(RouterStep)

----------------------------------------------------------------------------
(* arbitrage.py: snipe                                                     *)

SNIPE_PROFIT_THRESHOLD == 20000000

MkRegionOrder(id, region_id, loc, ty, buy, price, vol) ==
    [MkOrder(id, loc, ty, buy, price, vol) EXCEPT !.region_id = region_id]

\* Market.orders after a refresh of both regions
SnipePool ==
    << MkRegionOrder(21, 10, 1, 1, FALSE, 10000000, 5),
       MkRegionOrder(22, 10, 2, 1, TRUE,  20000000, 5),
       MkRegionOrder(23, 20, 3, 1, TRUE,  22000000, 5),
       MkRegionOrder(24, 20, 3, 1, FALSE, 12000000, 3),
       MkRegionOrder(25, 10, 1, 1, FALSE, 17000000, 5),
       MkRegionOrder(26, 10, 2, 1, TRUE,  21000000, 2) >>

SnipeSnapshots ==
    { Pick(SnipePool, at, 1) :
        at \in { x \in SUBSET (1..Len(SnipePool)) : Cardinality(x) <= MaxOrders } }

\* order_regions.get(order_id): the dict keeps the last order of an id
OrderRegion(orders_, order_id) ==
    LET at == { k \in 1..Len(orders_) : orders_[k].order_id = order_id } IN
    IF at = {} THEN None
    ELSE Some(orders_[CHOOSE k \in at : \A j \in at : j <= k].region_id)

FromRegion_BothOrders(orders_, trade, region) ==
    /\ OrderRegion(orders_, trade.from_order_id) = Some(region)
    /\ OrderRegion(orders_, trade.to_order_id) = Some(region)

\* order_regions.get(trade.from_order_id) == current_region
FromRegion(orders_, trade, region) ==
    OrderRegion(orders_, trade.from_order_id) = Some(region)

snipe(orders_, cargo_space, region) ==
    LET all_trades    == arbitrage(orders_, cargo_space).trades
        region_trades == SelectSeq(all_trades, LAMBDA t : FromRegion(orders_, t, region))
        sorted        == SortDescBy(region_trades,
                                    [i \in 1..Len(region_trades) |->
                                        region_trades[i].gross_profit])
    IN  IF sorted # <<>> /\ RatLess(RatInt(SNIPE_PROFIT_THRESHOLD), sorted[1].gross_profit)
        THEN Some(sorted[1])
        ELSE None

InitSnipe ==
    /\ pc = "snipe"
    /\ orders \in SnipeSnapshots
    /\ orders0 = orders
    /\ ship \in [location : {1}, cargo : ShipCargos]
    /\ current_region \in { REGION_IDS[k] : k \in 1..Len(REGION_IDS) }
    /\ potential_snipe = None
    /\ matched1 = <<>>
    /\ matched2 = <<>>
    /\ annotated = <<>>
    /\ pool = <<>>
    /\ trades = <<>>
    /\ idx = 0
    /\ seen_routes = {}
    /\ best_profit_rate = RatInt(0)
    /\ best_route = None
    /\ best_route_info = None
    /\ selection = NoSelection
    /\ evaluated = <<>>
    /\ run = 0
    /\ result1 = <<None, None>>
    /\ graph = None
    /\ paths = <<>>
    /\ paths_file = None
    /\ built = None
    /\ served = None
    /\ found = None
    /\ ManagerInit

\* snipe(self.market.orders, self.ship["cargo"], current_region)
Snipe ==
    /\ pc = "snipe"
    /\ pc' = "sniped"
    /\ orders' = arbitrage(orders, ship.cargo).snapshot
    /\ potential_snipe' = snipe(orders, ship.cargo, current_region)
    /\ UNCHANGED <<orders0, ship, graph, matched1, matched2, pathVars, routeVars,
                   constructionVars, managerVars, current_region>>

NextSnipe == Snipe

SpecSnipe == InitSnipe /\ [][NextSnipe]_vars

----------------------------------------------------------------------------
(* Properties                                                              *)

OrderById(id) == CHOOSE o \in { orders0[i] : i \in 1..Len(orders0) } : o.order_id = id

OrderIds == { orders0[i].order_id : i \in 1..Len(orders0) }

Accepted == selection.optimized

\* what the accepted trades before position k took from an order
TakenBefore(id, k) ==
    IntSum([j \in 1..(k - 1) |->
              IF id \in {Accepted[j].from_order_id, Accepted[j].to_order_id}
              THEN Accepted[j].quantity ELSE 0])

AfterTax(trade) ==
    RatMul(RatInt(trade.quantity),
           RatSub(RatMul(RatInt(trade.to_price), RatSub(RatInt(1), TAX_RATE)),
                  RatInt(trade.from_price)))

\* C1: the trades select_trades returns fit the vehicle and the capital
\* budget: sum of quantity * item_cargo_volume <= ship.cargo and sum of
\* quantity * from_price <= MAX_CAPITAL.
C1_SelectWithinBudgets ==
    /\ IntSum([i \in 1..Len(Accepted) |->
                 Accepted[i].quantity * Accepted[i].item_cargo_volume]) <= ship.cargo
    /\ IntSum([i \in 1..Len(Accepted) |->
                 Accepted[i].quantity * Accepted[i].from_price]) <= MAX_CAPITAL

\* a selection of two trades, the second cut down to the cargo space left
C1_Witness ==
    /\ Len(Accepted) >= 2
    /\ \E k \in 1..Len(Accepted) :
          /\ Accepted[k].quantity < selection.log[k].trade.quantity
          /\ selection.log[k].cargo_before > 0

\* C2: for every order of the snapshot, the accepted trades that reference
\* it (as sell order or as buy order) take in total at most the order's
\* volume_remain.
C2_OrdersNotOverConsumed ==
    \A id \in OrderIds :
        TakenBefore(id, Len(Accepted) + 1) <= OrderById(id).volume_remain

\* two eligible trades share an order and the first of them was accepted
C2_Witness ==
    \E i, j \in 1..Len(selection.originals) :
        /\ i < j
        /\ selection.originals[i].from_order_id = selection.originals[j].from_order_id
        /\ \E k \in 1..Len(Accepted) : selection.log[k].trade = selection.originals[i]

\* C3: every Trade of the matcher has to_price * (1 - TAX_RATE) >= from_price
\* and gross_profit >= PROFIT_THRESHOLD, and a sell/buy pair whose buy price
\* after tax is below the sell price has no Trade.
C3_TradesProfitable ==
    /\ \A i \in 1..Len(matched1) :
          /\ RatLeq(RatInt(matched1[i].from_price),
                    RatMul(RatInt(matched1[i].to_price), RatSub(RatInt(1), TAX_RATE)))
          /\ RatLeq(RatInt(PROFIT_THRESHOLD), matched1[i].gross_profit)
    /\ \A s, b \in OrderIds :
          (/\ ~OrderById(s).is_buy_order /\ OrderById(b).is_buy_order
           /\ OrderById(b).price * 23 < OrderById(s).price * 25)
          => ~\E i \in 1..Len(matched1) :
                 matched1[i].from_order_id = s /\ matched1[i].to_order_id = b

\* the matcher produced a Trade and dropped another pair of the same item
C3_Witness ==
    /\ pc = "rematch"
    /\ matched1 # <<>>
    /\ \E s, b \in OrderIds :
          /\ ~OrderById(s).is_buy_order /\ OrderById(b).is_buy_order
          /\ OrderById(s).type_id = OrderById(b).type_id
          /\ OrderById(s).price > 0 /\ OrderById(s).item_cargo_volume > 0
          /\ ~\E i \in 1..Len(matched1) :
                 matched1[i].from_order_id = s /\ matched1[i].to_order_id = b

\* C4: every Trade of the matcher fits the vehicle and the capital budget on
\* its own, and its quantity is positive and at most the volume_remain of
\* each of its two original orders.
C4_TradesFeasible ==
    \A i \in 1..Len(matched1) :
        LET t == matched1[i] IN
        /\ t.quantity * t.item_cargo_volume <= ship.cargo
        /\ t.quantity * t.from_price <= MAX_CAPITAL
        /\ t.quantity > 0
        /\ t.quantity <= Min(OrderById(t.from_order_id).volume_remain,
                             OrderById(t.to_order_id).volume_remain)

\* a Trade whose quantity a filter capped below both orders' volume
C4_Witness ==
    \E i \in 1..Len(matched1) :
        matched1[i].quantity < Min(OrderById(matched1[i].from_order_id).volume_remain,
                                   OrderById(matched1[i].to_order_id).volume_remain)

\* C5: every Trade, those of the matcher and the re-quantified ones of
\* select_trades, has gross_profit = quantity * (to_price * (1 - TAX_RATE)
\* - from_price).
C5_GrossProfitAfterTax ==
    /\ \A i \in 1..Len(matched1) : matched1[i].gross_profit = AfterTax(matched1[i])
    /\ \A i \in 1..Len(Accepted) : Accepted[i].gross_profit = AfterTax(Accepted[i])

\* C6: every accepted trade gets the largest feasible quantity: the least of
\* floor(cargo left / item_cargo_volume), floor(capital left / from_price)
\* and what is left of its sell order and of its buy order after the trades
\* accepted before it.
C6_MaximumFeasibleQuantity ==
    \A k \in 1..Len(Accepted) :
        LET t == Accepted[k]
            e == selection.log[k]
        IN  t.quantity =
              Min(Min((ship.cargo - e.cargo_before) \div t.item_cargo_volume,
                      (MAX_CAPITAL - e.capital_before) \div t.from_price),
                  Min(OrderById(t.from_order_id).volume_remain
                         - TakenBefore(t.from_order_id, k),
                      OrderById(t.to_order_id).volume_remain
                         - TakenBefore(t.to_order_id, k)))

AsSet(s) == { s[i] : i \in 1..Len(s) }

\* C7: a second matcher run on the snapshot yields the same set of Trades as
\* the first, and the runs leave the snapshot's orders as they were fetched.
C7_MatcherIdempotent ==
    /\ pc # "match" => orders = orders0
    /\ pc \notin {"match", "rematch"} => AsSet(matched1) = AsSet(matched2)

\* both runs are over, they produced Trades and a filter capped an order
C7_Witness ==
    /\ pc = "route"
    /\ Len(matched2) >= 2
    /\ \E i \in 1..Len(orders0) :
          /\ orders0[i].item_cargo_volume > 0
          /\ orders0[i].volume_remain > ship.cargo \div orders0[i].item_cargo_volume
          /\ \E j \in 1..Len(matched2) :
                orders0[i].order_id \in {matched2[j].from_order_id, matched2[j].to_order_id}

\* C8: the second run of route, on the list the first run sorted in place,
\* returns the same Route and RouteInfo as the first.
C8_RouteDeterministic ==
    pc = "done" => <<best_route, best_route_info>> = result1

\* both runs returned a route picked among several scored skeletons
C8_Witness ==
    /\ pc = "done"
    /\ best_route # None
    /\ Len(evaluated) >= 2

PositiveRates == { k \in 1..Len(evaluated) : RatLess(RatInt(0), evaluated[k].info.profit_rate) }

\* the first scored skeleton that attains the highest rate
FirstBest ==
    CHOOSE m \in 1..Len(evaluated) :
        /\ \A k \in 1..Len(evaluated) :
              RatLeq(evaluated[k].info.profit_rate, evaluated[m].info.profit_rate)
        /\ \A k \in 1..(m - 1) :
              RatLess(evaluated[k].info.profit_rate, evaluated[m].info.profit_rate)

BestIsFirstHighest ==
    (pc \in {"loop", "returned", "done"} /\ PositiveRates # {})
    => /\ best_route = Some(evaluated[FirstBest].route)
       /\ best_route_info = Some(evaluated[FirstBest].info)

BestOnlyImproves ==
    (pc = "loop" /\ pc' = "loop" /\ <<best_route, best_route_info>>' # <<best_route, best_route_info>>)
    => RatLess(best_profit_rate, best_profit_rate')

\* C9: the route held as best is that of the scored skeleton with the
\* highest profit_rate, the first evaluated one when several tie, and it is
\* replaced only when the rate strictly increases.
C9_BestKeepsFirstOnTies == []BestIsFirstHighest /\ [][BestOnlyImproves]_vars

\* two scored skeletons tie for the highest rate and have different routes
C9_Witness ==
    /\ pc = "returned"
    /\ \E a, b \in 1..Len(evaluated) :
          /\ a < b
          /\ evaluated[a].info.profit_rate = evaluated[b].info.profit_rate
          /\ evaluated[a].route # evaluated[b].route
          /\ best_route = Some(evaluated[a].route)

\* C10: route returns (None, None) when no scored skeleton has a positive
\* profit_rate; route and info are None together; a returned info has
\* profit_rate > 0.
C10_NoneUnlessPositive ==
    /\ (pc \in {"returned", "done"} /\ PositiveRates = {})
          => (best_route = None /\ best_route_info = None)
    /\ best_route = None <=> best_route_info = None
    /\ best_route_info # None => RatLess(RatInt(0), best_route_info.val.profit_rate)

\* a run that scored a skeleton and still returned (None, None)
C10_Witness ==
    /\ pc = "returned"
    /\ evaluated # <<>>
    /\ best_route = None
    /\ best_route_info = None

----------------------------------------------------------------------------
(* The net-profit stage                                                    *)

\* the two distances calculate_net_profit asks the table for
CostToSource(trade) == shortest_path_length(paths, ship.location, trade.from_station)

CostToDestination(trade) == shortest_path_length(paths, trade.from_station, trade.to_station)

InPool(trade) ==
    \E j \in 1..Len(pool) : /\ pool[j].from_order_id = trade.from_order_id
                             /\ pool[j].to_order_id = trade.to_order_id

\* C11: every trade pathfinder returns has both distances resolved, carries
\* net_profit = gross_profit - (distance(ship.location, from_station) +
\* distance(from_station, to_station)) and that net_profit is positive; a
\* trade with an absent distance keeps net_profit None and is not returned.
C11_NetProfitResolved ==
    pc \notin {"match", "rematch", "pathfind"} =>
        /\ \A i \in 1..Len(pool) :
              /\ CostToSource(pool[i]) # None
              /\ CostToDestination(pool[i]) # None
              /\ pool[i].net_profit
                    = Some(RatSub(pool[i].gross_profit,
                                  RatAdd(CostToSource(pool[i]).val,
                                         CostToDestination(pool[i]).val)))
              /\ RatLess(RatInt(0), pool[i].net_profit.val)
        /\ \A i \in 1..Len(annotated) :
              (CostToSource(annotated[i]) = None \/ CostToDestination(annotated[i]) = None)
                  => annotated[i].net_profit = None /\ ~InPool(annotated[i])

\* pathfinder returned a trade and dropped one whose second distance is absent
C11_Witness ==
    /\ pc = "route"
    /\ pool # <<>>
    /\ \E i \in 1..Len(annotated) :
          CostToSource(annotated[i]) # None /\ CostToDestination(annotated[i]) = None

----------------------------------------------------------------------------
(* The distance table and the edge attributes                              *)

NonNegativeWeights(g) == \A e \in g.edges : RatLeq(RatInt(0), e.weight)

\* C12: the distance cache is keyed by the vehicle: once a graph was built
\* for one vehicle and its table written, shortest_path_length on a graph
\* built afterwards from the same map for another vehicle answers with the
\* shortest distances under that graph's own weights.
C12_TableKeyedByProfile ==
    (/\ served # None
     /\ built.writer.stations = built.stations
     /\ NonNegativeWeights(graph))
        => served.length
             = shortest_path_length(all_pairs_dijkstra_path_length(graph),
                                    served.source, served.target)

\* C13: wherever the table shortest_path_length serves has the three
\* entries, dist(a, c) <= dist(a, b) + dist(b, c).
C13_TriangleInequality ==
    \A a \in DOMAIN paths : \A b \in DOMAIN paths[a] : \A c \in DOMAIN paths[a] :
        (b \in DOMAIN paths /\ c \in DOMAIN paths[b])
            => RatLeq(shortest_path_length(paths, a, c).val,
                      RatAdd(shortest_path_length(paths, a, b).val,
                             shortest_path_length(paths, b, c).val))

\* a graph serves a table that another construction wrote, and a distance
\* between two different nodes has been asked for
C13_Witness ==
    /\ graph # None
    /\ built.loaded
    /\ built.writer # [stations |-> built.stations, ship |-> built.ship]
    /\ served # None
    /\ served.source # served.target
    /\ served.length # None

\* C14: every edge of a constructed graph has time >= 0, risk >= 0 and
\* weight = time * player_cost + risk_cost * risk >= 0.
C14_EdgesNonNegative ==
    graph # None =>
        \A e \in graph.edges :
            /\ RatLeq(RatInt(0), e.time)
            /\ RatLeq(RatInt(0), e.risk)
            /\ e.weight = RatAdd(RatMul(e.time, built.ship.player_cost),
                                 RatMul(RatInt(built.ship.risk_cost), e.risk))
            /\ RatLeq(RatInt(0), e.weight)

\* ---------------------------------------------------------------------------
\* The update loop and its threads
\* ---------------------------------------------------------------------------

\* the refresh threads whose body has not ended
LiveWorkers == { i \in 1..Len(workers) : workers[i].pc # "exited" }

\* C15: at most one order-refresh worker is running at any time, and while the
\* flag updating_orders is set no step, a tick of the update loop included,
\* starts another worker
C15_OneRefreshWorker ==
    /\ [](Cardinality(LiveWorkers) <= 1)
    /\ [][updating_orders => Len(workers') = Len(workers)]_vars

\* C15: a tick found the flag set while the worker was still running, and
\* skipped the refresh
C15_Witness ==
    /\ tick = "skipped"
    /\ updating_orders
    /\ \E i \in LiveWorkers : workers[i].pc \in {"update_orders", "snipe"}

\* the create_route tasks whose computation or stores are still to come
LiveRouters == { i \in 1..Len(routers) : routers[i].pc # "exited" }

\* C16: at most one execution of Manager.create_route is in progress at any time
C16_OneRouteComputation == Cardinality(LiveRouters) <= 1

\* C17: the flag updating_orders is set only while a worker body is running,
\* and the step that ends a worker body, by return or by raise, leaves the
\* flag clear
C17_FlagClearedOnExit ==
    /\ [](updating_orders => LiveWorkers # {})
    /\ [][\A i \in LiveWorkers : workers'[i].pc = "exited" => ~updating_orders']_vars

\* C17: a worker body ended by raising, and the flag is clear
C17_Witness ==
    /\ ~updating_orders
    /\ \E i \in 1..Len(workers) : workers[i].pc = "exited" /\ workers[i].raised

\* C18: every refresh cycle ends and frees the guard: whenever the flag
\* updating_orders is set it is later clear, also when the first page of a
\* region is answered with an HTTP error
C18_RefreshEnds == updating_orders ~> ~updating_orders

\* C19: a reader that observes a route observes with it the route_info that
\* belongs to it: both stored by the same create_route call, or both as
\* Manager.__init__ left them
C19_RouteAndInfoTogether ==
    (observed # None /\ observed.val.route.steps # None)
        => observed.val.route.gen = observed.val.route_info.gen

\* C20: when the download of a region raises during Market.update_orders,
\* Market.orders after the call is the list it was before the call
C20_OrdersKeptOnRaise ==
    \A i \in 1..Len(workers) :
        (workers[i].pc = "finally" /\ workers[i].raised /\ ~workers[i].returned)
            => market_orders = workers[i].before

\* C20: the call raised on a later region after an earlier region had been
\* downloaded, with orders in the market from a previous refresh
C20_Witness ==
    \E i \in 1..Len(workers) :
        /\ workers[i].pc = "finally" /\ workers[i].raised /\ ~workers[i].returned
        /\ workers[i].regions_updated # <<>>
        /\ workers[i].before # <<>>
        /\ workers[i].updated_orders # workers[i].before

\* the orders of one region in a list of orders
OfRegion(order_list, region_id) == SelectSeq(order_list, LAMBDA o : o.region_id = region_id)

\* C21: Market.update_orders downloads a region only when no expiry is
\* recorded for it or its expiry has passed; a region whose expiry lies in the
\* future is not fetched (no request, no new expiry, not reported as updated)
\* and its orders are carried over unchanged, into the local list and, when
\* the call returns, into Market.orders
C21_FetchOnlyWhenExpired ==
    [][\A i \in LiveWorkers :
        (workers[i].pc = "update_orders" /\ workers'[i] # workers[i]) =>
            LET region_id == REGION_IDS[workers[i].region] IN
            /\ expires_times[region_id] = "future" =>
                /\ expires_times' = expires_times
                /\ workers'[i].pc \notin {"queue_get"}
                /\ ~workers'[i].raised
                /\ workers'[i].regions_updated = workers[i].regions_updated
                /\ workers'[i].updated_orders =
                        workers[i].updated_orders \o OfRegion(market_orders, region_id)
            /\ workers'[i].returned =>
                \A k \in 1..Len(REGION_IDS) :
                    (\A j \in 1..Len(workers'[i].regions_updated) :
                        workers'[i].regions_updated[j] # REGION_IDS[k])
                    => OfRegion(market_orders', REGION_IDS[k]) = OfRegion(market_orders, REGION_IDS[k])]_vars

\* C21: a refresh returned having fetched region 20 only, and the orders an
\* earlier refresh fetched for region 10 are still in Market.orders
C21_Witness ==
    \E i \in 1..Len(workers) :
        /\ workers[i].pc \in {"snipe", "finally"}
        /\ workers[i].returned
        /\ workers[i].regions_updated = <<20>>
        /\ \E j \in 1..Len(market_orders) :
            market_orders[j].region_id = 10 /\ market_orders[j].batch # i

----------------------------------------------------------------------------
(* The actions of the returned route                                       *)

\* the actions of a route, each with the position of its step
RECURSIVE ActionsFrom(_, _)
ActionsFrom(steps, i) ==
    IF i > Len(steps) THEN <<>>
    ELSE [j \in 1..Len(steps[i].actions) |-> [step |-> i, act |-> steps[i].actions[j]]]
         \o ActionsFrom(steps, i + 1)

\* the route that route returned, with the trades selected for it
Returned ==
    { e \in { evaluated[k] : k \in 1..Len(evaluated) } :
        /\ pc \in {"returned", "done"}
        /\ best_route = Some(e.route)
        /\ best_route_info = Some(e.info) }

\* C22: in the returned route every sell action of an item type has a buy
\* action of that type at the same or an earlier step
C22_SellAfterBuy ==
    \A e \in Returned :
        LET acts == ActionsFrom(e.route, 1) IN
        \A a \in 1..Len(acts) :
            acts[a].act.action_type = "sell" =>
                \E b \in 1..Len(acts) :
                    /\ acts[b].act.action_type = "buy"
                    /\ acts[b].act.type_id = acts[a].act.type_id
                    /\ acts[b].step <= acts[a].step

\* the total quantity of the actions of one kind and one item type
Quantity(acts, action_type, type_id) ==
    IntSum([a \in 1..Len(acts) |->
        IF acts[a].act.action_type = action_type /\ acts[a].act.type_id = type_id
        THEN acts[a].act.quantity ELSE 0])

\* C26: in the returned route each selected trade has one buy action and one
\* sell action with its quantity: there are as many buy actions, and as many
\* sell actions, as selected trades, and for every item type the quantity
\* bought and the quantity sold are the quantity of the selected trades
C26_OneBuyOneSellPerTrade ==
    \A e \in Returned :
        LET acts == ActionsFrom(e.route, 1) IN
        /\ Len(SelectSeq(acts, LAMBDA x : x.act.action_type = "buy")) = Len(e.optimized)
        /\ Len(SelectSeq(acts, LAMBDA x : x.act.action_type = "sell")) = Len(e.optimized)
        /\ \A ty \in 1..Len(ItemVolume) :
            /\ Quantity(acts, "buy", ty) =
                    IntSum([k \in 1..Len(e.optimized) |->
                        IF e.optimized[k].type_id = ty THEN e.optimized[k].quantity ELSE 0])
            /\ Quantity(acts, "sell", ty) = Quantity(acts, "buy", ty)

\* C23: for the returned route, capital is the value of the vehicle plus the
\* purchase cost of the selected trades, net_profit is gross_profit minus
\* risk times capital, and profit_rate is net_profit over a positive
\* transport_time
C23_CapitalCountsVehicle ==
    \A e \in Returned :
        /\ e.info.capital =
                SHIP_COST + IntSum([k \in 1..Len(e.optimized) |->
                                e.optimized[k].from_price * e.optimized[k].quantity])
        /\ e.info.net_profit =
                RatSub(e.info.gross_profit, RatMul(e.info.risk, RatInt(e.info.capital)))
        /\ RatLess(RatInt(0), e.info.transport_time)
        /\ e.info.profit_rate = RatDiv(e.info.net_profit, e.info.transport_time)

\* the Trades the matcher finds between two orders of the region of the call
RegionTrades ==
    LET all_trades == arbitrage(orders0, ship.cargo).trades IN
    { all_trades[k] : k \in { j \in 1..Len(all_trades) :
        FromRegion_BothOrders(orders0, all_trades[j], current_region) } }

\* C24: a Trade snipe returns has its sell order and its buy order in the
\* region of the call, a gross_profit above SNIPE_PROFIT_THRESHOLD, and the
\* highest gross_profit of the Trades of that region; snipe returns None only
\* when no Trade of the region passes the threshold
C24_SnipeWithinRegion ==
    pc = "sniped" =>
        IF potential_snipe = None
        THEN \A t \in RegionTrades :
                ~RatLess(RatInt(SNIPE_PROFIT_THRESHOLD), t.gross_profit)
        ELSE /\ potential_snipe.val \in RegionTrades
             /\ RatLess(RatInt(SNIPE_PROFIT_THRESHOLD), potential_snipe.val.gross_profit)
             /\ \A t \in RegionTrades : RatLeq(t.gross_profit, potential_snipe.val.gross_profit)

\* C25: graph.shortest_path never raises: for two ids with no route between
\* them, nodes of the graph or not, the outcome is an absent path
C25_MissingPathIsAbsent ==
    found # None => found.val.path # Raised

\* C27: a candidate trade between two different stations is eligible in the
\* skeleton (ship.location, from_station, to_station) built from it: it is
\* among the trades select_trades filtered for that skeleton
C27_SeedIsEligible ==
    \A k \in 1..Len(trades) :
        (/\ pc = "loop"
         /\ k < idx
         /\ trades[k].from_station # trades[k].to_station
         /\ selection.stations
                = <<ship.location, trades[k].from_station, trades[k].to_station>>)
        => \E j \in 1..Len(selection.originals) : selection.originals[j] = trades[k]

\* C28: the risk stored on an edge does not depend on the orientation in which
\* graph.edges() lists it: the value stored for (u, v) is the value the
\* listing (v, u) stores, the risk of travelling to u
C28_RiskIgnoresOrientation ==
    (graph # None /\ built # None) =>
        \A e \in graph.edges :
            e.risk = calculate_risk(e.u, built.stations, built.ship.gankers_areas)

\* C29: when Market.update_orders ends, by returning or by an exception in
\* the download of a later region, the orders it fetched for every region
\* whose expiry it advanced are in Market.orders
C29_ExpiryMatchesOrders ==
    \A i \in 1..Len(workers) :
        (workers[i].pc \in {"snipe", "finally"}) =>
            \A j \in 1..Len(workers[i].regions_updated) :
                /\ expires_times[workers[i].regions_updated[j]] = "future"
                   => \E k \in 1..Len(market_orders) :
                        market_orders[k] = [region_id |-> workers[i].regions_updated[j],
                                            batch     |-> i]

\* C30: after create_route ran with route returning (None, None), Manager.route
\* is still a sequence, and no later Manager.update call raises before it
\* reaches the start of a refresh
C30_NoRouteIsRecoverable ==
    /\ \A i \in 1..Len(routers) :
        (routers[i].pc = "exited" /\ m_route.gen = i) => m_route.steps # None
    /\ tick # "raised"

====
